---- MODULE Spec2Model ----
(***************************************************************************)
(* Linguisty: the streaming audio pipeline of src/App.tsx.                 *)
(*                                                                         *)
(* src/App.tsx holds two variants of the application component:            *)
(*   variant "A" (lines 1-480):   startListening / stopListening /         *)
(*                                playPcmData / stopAllAudio /             *)
(*                                handleLiveMessage                        *)
(*   variant "B" (lines 483-850): startSession / stopSession /             *)
(*                                playAudioBytes / onmessage               *)
(* The variant is fixed in Init; every handler is modelled for both.       *)
(*                                                                         *)
(* The program is single threaded: a step of the model is one run of a     *)
(* handler from an event (or from the resumption of an await) up to its    *)
(* next await.  Time is counted in ticks of the output device clock.       *)
(***************************************************************************)
EXTENDS Integers, Sequences, FiniteSets, TLC

\* ------------------------------------------------------------------ bounds
MaxStarts == 2      \* start() calls in a behaviour
MaxSegs   == 2      \* inbound audio segments in a behaviour
MaxTime   == 1      \* ticks of an output context's clock
MaxFrames == 2      \* captured microphone frames in a behaviour

MaxText   == 6      \* characters of partial text received and not yet finalized
MaxRecords == 11    \* records created in a behaviour

MaxReplays == 2     \* speakText calls from the history panel in a behaviour
MaxReopenStarts == 3   \* start() calls in a behaviour with a late open signal

MaxScenarioTime == 13  \* ticks of the output clock in the three-segment scenario
\* The segments of the end-to-end scenario, 0.5 s, 0.3 s and 0.4 s, in ticks of 0.1 s.
ScenarioDurations == << 5, 3, 4 >>

HistoryCap == 10    \* [entry, ...prev].slice(0, 10)
FrameSizeA == 4096  \* createScriptProcessor(4096, 1, 1)
FrameSizeB == 2048  \* INPUT_BUFFER_SIZE
\* The lengths of the frames handed to onaudioprocess.
FrameLengths == {FrameSizeA, FrameSizeB}
\* The characters of the partial texts: a letter, the delimiter, white space.
Chars == {"a", "|", " "}
\* The partial texts of the messages of a turn: one character each.
PartialChunks == {<< c >> : c \in Chars}
\* A whole transcript in the three-field format, as one partial text.
WholeChunk == << "a", "|", "a", "|", "a" >>
\* The audio part of a message that has none.
NoAudio == [kind |-> "none", dur |-> 0]

Durations == {1, 2}                 \* durations of decoded buffers, in ticks
Variants  == {"A", "B"}
\* The rejections of getUserMedia: the user declined, or there is no input device.
GumErrors == { [name |-> "NotAllowedError", message |-> "Permission denied"],
               [name |-> "NotFoundError", message |-> "Requested device not found"] }
\* The rejections of ai.live.connect: no valid credential, or another failure.
ConnectErrors == { [name |-> "Error", message |-> "API Key must be set"],
                   [name |-> "Error", message |-> "Network failure"] }
\* The messages of the error event of the connection.
ErrorTexts == {"API Key not valid", "Entity was not found", "Network failure"}
\* The audio part of a message: it decodes to a buffer of some duration, or
\* decode() throws on it ("b64"), or decodeAudioData rejects it ("pcm").
Payloads == [kind : {"ok"}, dur : Durations] \cup [kind : {"b64", "pcm"}, dur : {0}]

VARIABLES
  variant,             \* which component of src/App.tsx runs
  isListening,         \* useState isListening
  isSpeaking,          \* useState isSpeaking (variant A)
  sessionRef,          \* sessionRef.current: 0 = null, else the attempt whose session it is
  streamRef,           \* streamRef.current: 0 = null, else the attempt whose stream it is
  audioContextInRef,   \* audioContextInRef.current: 0 = null, else the attempt
  audioContextOutRef,  \* audioContextOutRef.current: 0 = null, else index in outCtx
  animationFrameRef,   \* animationFrameRef.current is a pending frame request
  nextStartTimeRef,    \* nextStartTimeRef.current, the PlaybackClock
  audioSourcesRef,     \* audioSourcesRef.current (A) / sourcesRef.current (B): set of segment ids
  att,                 \* the start() calls: position of the async function and what it acquired
  outCtx,              \* the output AudioContexts ever created: state and currentTime
  seg,                 \* the inbound audio segments: position of their handler, their source
  startLog,            \* the last three source.start calls since the last cancel (history)
  lastClear,           \* what emptied startLog last (history)
  nCaptured,           \* frames captured so far
  sent,                \* frames delivered to sendRealtimeInput of an open connection
  error,               \* useState error: << >> = null, else the parts of the message shown
  hasKey,              \* useState hasKey (variant A): FALSE shows the setup screen
  currentOutputTranscriptionRef,  \* the TranscriptBuffer: a sequence of characters
  currentInputTranscription,      \* variant B: the buffer of the input transcription
  history,             \* useState history (variant A), most recent first
  transcriptions,      \* useState transcriptions (variant B)
  storage,             \* localStorage item linguisty_v9_history (variant A)
  isTranslating,       \* useState isTranslating (variant A)
  manual,              \* position of handleManualTranslate: "idle", "translate" or "speak"
  nRecords,            \* records created so far: the order of their Date.now() ids
  rejected,            \* the captured frames on which createBlob threw (history)
  speakReq,            \* the speakText calls of the history panel: "synth" while awaiting the audio
  turnArrived          \* the partial texts received since the last turn-complete signal (history)

vars == << variant, isListening, isSpeaking, sessionRef, streamRef, audioContextInRef,
           audioContextOutRef, animationFrameRef, nextStartTimeRef, audioSourcesRef,
           att, outCtx, seg, startLog, lastClear, nCaptured, sent, error, hasKey,
           currentOutputTranscriptionRef, currentInputTranscription, history,
           transcriptions, storage, isTranslating, manual, nRecords, rejected,
           speakReq, turnArrived >>

\* The state as a record: the handlers below are functions from state to state.
S == [ variant |-> variant, isListening |-> isListening, isSpeaking |-> isSpeaking,
       sessionRef |-> sessionRef, streamRef |-> streamRef,
       audioContextInRef |-> audioContextInRef,
       audioContextOutRef |-> audioContextOutRef,
       animationFrameRef |-> animationFrameRef,
       nextStartTimeRef |-> nextStartTimeRef, audioSourcesRef |-> audioSourcesRef,
       att |-> att, outCtx |-> outCtx, seg |-> seg, startLog |-> startLog,
       lastClear |-> lastClear, nCaptured |-> nCaptured, sent |-> sent,
       error |-> error, hasKey |-> hasKey,
       currentOutputTranscriptionRef |-> currentOutputTranscriptionRef,
       currentInputTranscription |-> currentInputTranscription,
       history |-> history, transcriptions |-> transcriptions, storage |-> storage,
       isTranslating |-> isTranslating, manual |-> manual, nRecords |-> nRecords,
       rejected |-> rejected, speakReq |-> speakReq, turnArrived |-> turnArrived ]

Apply(r) ==
  /\ variant' = r.variant
  /\ isListening' = r.isListening
  /\ isSpeaking' = r.isSpeaking
  /\ sessionRef' = r.sessionRef
  /\ streamRef' = r.streamRef
  /\ audioContextInRef' = r.audioContextInRef
  /\ audioContextOutRef' = r.audioContextOutRef
  /\ animationFrameRef' = r.animationFrameRef
  /\ nextStartTimeRef' = r.nextStartTimeRef
  /\ audioSourcesRef' = r.audioSourcesRef
  /\ att' = r.att
  /\ outCtx' = r.outCtx
  /\ seg' = r.seg
  /\ startLog' = r.startLog
  /\ lastClear' = r.lastClear
  /\ nCaptured' = r.nCaptured
  /\ sent' = r.sent
  /\ error' = r.error
  /\ hasKey' = r.hasKey
  /\ currentOutputTranscriptionRef' = r.currentOutputTranscriptionRef
  /\ currentInputTranscription' = r.currentInputTranscription
  /\ history' = r.history
  /\ transcriptions' = r.transcriptions
  /\ storage' = r.storage
  /\ isTranslating' = r.isTranslating
  /\ manual' = r.manual
  /\ nRecords' = r.nRecords
  /\ rejected' = r.rejected
  /\ speakReq' = r.speakReq
  /\ turnArrived' = r.turnArrived

Max(a, b) == IF a >= b THEN a ELSE b

\* ------------------------------------------------------------ initial state
NoAtt == [ pc |-> "none", stream |-> "none", inCtx |-> "none", conn |-> "none",
           opened |-> FALSE, wired |-> 0, queued |-> << >> ]

NoSeg == [ pc |-> "none", kind |-> "ok", dur |-> 0, ctx |-> 0, intr |-> FALSE,
           src |-> "none", endAt |-> 0, pre |-> FALSE, replay |-> 0, fin |-> FALSE,
           text |-> << >>, itext |-> << >>, tc |-> FALSE ]
\* A segment whose source has ended: nothing of it is read again.
EndedSeg == [NoSeg EXCEPT !.pc = "done", !.src = "ended"]
\* A segment that was discarded: no source exists for it.
DroppedSeg == [NoSeg EXCEPT !.pc = "dropped"]

\* The state after mount, with a credential present and nothing in storage, for
\* behaviours of up to m start() calls and n inbound segments.
InitOf(m, n) ==
  /\ variant \in Variants
  /\ isListening = FALSE
  /\ isSpeaking = FALSE
  /\ sessionRef = 0
  /\ streamRef = 0
  /\ audioContextInRef = 0
  /\ audioContextOutRef = 0
  /\ animationFrameRef = FALSE
  /\ nextStartTimeRef = 0
  /\ audioSourcesRef = {}
  /\ att = [k \in 1..m |-> NoAtt]
  /\ outCtx = << >>
  /\ seg = [i \in 1..n |-> NoSeg]
  /\ startLog = << >>
  /\ lastClear = "init"
  /\ nCaptured = 0
  /\ sent = << >>
  /\ error = << >>
  /\ hasKey = TRUE
  /\ currentOutputTranscriptionRef = << >>
  /\ currentInputTranscription = << >>
  /\ history = << >>
  /\ transcriptions = << >>
  /\ storage = << >>
  /\ isTranslating = FALSE
  /\ manual = "idle"
  /\ nRecords = 0
  /\ rejected = {}
  /\ speakReq = << >>
  /\ turnArrived = << >>

InitSegs(n) == InitOf(MaxStarts, n)

Init == InitSegs(MaxSegs)


\* ------------------------------------------------------------------ helpers
Min(a, b) == IF a <= b THEN a ELSE b

\* ----------------------------------------------------- text, as characters
\* Array.prototype.slice(a, b)
slice(q, a, b) == SubSeq(q, a + 1, Min(b, Len(q)))

\* String.prototype.trim
RECURSIVE trimStart(_)
trimStart(q) == IF q # << >> /\ Head(q) = " " THEN trimStart(Tail(q)) ELSE q
RECURSIVE trimEnd(_)
trimEnd(q) ==
  IF q # << >> /\ q[Len(q)] = " " THEN trimEnd(SubSeq(q, 1, Len(q) - 1)) ELSE q
trim(q) == trimEnd(trimStart(q))

\* The maximal runs of characters other than "|", in order.
RECURSIVE pipeFields(_)
pipeFields(q) ==
  LET P == {p \in 1..Len(q) : q[p] = "|"}
  IN IF P = {} THEN << q >>
     ELSE LET p == CHOOSE x \in P : \A y \in P : x <= y
          IN << SubSeq(q, 1, p - 1) >> \o pipeFields(SubSeq(q, p + 1, Len(q)))

\* A match whose groups are not trimmed.
matchFields_raw(q) ==
  LET F == pipeFields(q)
      I == {i \in 1..(Len(F) - 2) : F[i] # << >> /\ F[i + 1] # << >> /\ F[i + 2] # << >>}
  IN IF I = {} THEN << >>
     ELSE LET i == CHOOSE x \in I : \A y \in I : x <= y
          IN << F[i], F[i + 1], F[i + 2] >>

\* fullText.match(/([^|]+)\s*\|\s*([^|]+)\s*\|\s*([^|]+)/i) followed by the trim() of
\* its three groups; << >> stands for null.  The leftmost match starts at the
\* first run that is followed by two more runs, all three of at least one
\* character: [^|]+ takes a whole run, and a run of white space only is matched
\* by giving its last character to the group.
matchFields(q) ==
  LET F == pipeFields(q)
      I == {i \in 1..(Len(F) - 2) : F[i] # << >> /\ F[i + 1] # << >> /\ F[i + 2] # << >>}
  IN IF I = {} THEN << >>
     ELSE LET i == CHOOSE x \in I : \A y \in I : x <= y
          IN << trim(F[i]), trim(F[i + 1]), trim(F[i + 2]) >>

nSegs(s)   == Cardinality({i \in DOMAIN s.seg : s.seg[i].pc # "none"})
nStarts(s) == Cardinality({k \in DOMAIN s.att : s.att[k].pc # "none"})

\* message.includes("API Key") and message.includes("not found")
includesApiKey(m)   == m \in {"API Key must be set", "API Key not valid"}
includesNotFound(m) == m \in {"Entity was not found", "Requested device not found"}

\* ctx.currentTime of output context c
currentTime(s, c) == s.outCtx[c].time

\* new AudioContext({ sampleRate: SAMPLE_RATE_OUT }) assigned to audioContextOutRef.current:
\* the context starts running with currentTime 0.
newOutCtx(s) ==
  [s EXCEPT !.outCtx = Append(@, [state |-> "running", time |-> 0]),
            !.audioContextOutRef = Len(s.outCtx) + 1]

\* unlockAudio, up to its await: creates the output context when there is none.
unlockAudio(s) == IF s.audioContextOutRef = 0 THEN newOutCtx(s) ELSE s

\* History only: a cancel empties the log of source.start calls and marks the
\* segments whose handler is still awaiting as received before the cancel.
noteCancel(s, what) ==
  [s EXCEPT !.startLog = << >>,
            !.lastClear = what,
            !.seg = [i \in DOMAIN s.seg |->
                       IF s.seg[i].pc \in {"unlock", "decode"}
                       THEN [s.seg[i] EXCEPT !.pre = TRUE] ELSE s.seg[i]]]

\* Sources that are stopped and left in the active set.
stopSources_keep(s) ==
  [s EXCEPT !.seg = [i \in DOMAIN s.seg |->
                       IF i \in s.audioSourcesRef /\ s.seg[i].src = "playing"
                       THEN [s.seg[i] EXCEPT !.src = "stopped"] ELSE s.seg[i]]]

\* forEach(source => { try { source.stop() } catch {} }); clear()
\* A stopped source fires its ended event later (SourceEnded).
stopSources(s) ==
  [s EXCEPT !.seg = [i \in DOMAIN s.seg |->
                       IF i \in s.audioSourcesRef /\ s.seg[i].src = "playing"
                       THEN [s.seg[i] EXCEPT !.src = "stopped"] ELSE s.seg[i]],
            !.audioSourcesRef = {}]

\* A cancel that leaves nextStartTimeRef as it is.
stopAllAudio_noReset(s) ==
  noteCancel([stopSources(s) EXCEPT !.isSpeaking = FALSE], "cancelAll")

\* Variant A, stopAllAudio: the scheduler's cancelAll.
stopAllAudio(s) ==
  noteCancel([stopSources(s) EXCEPT !.nextStartTimeRef = 0, !.isSpeaking = FALSE],
             "cancelAll")

\* Variant B, onmessage: the body of `if (message.serverContent?.interrupted)`.
interruptedB(s) ==
  noteCancel([stopSources(s) EXCEPT !.nextStartTimeRef = 0], "cancelAll")

\* The time handed to source.start.
\* Variant A computes it when the decoded buffer is there (line 118).
startTimeA(clock, now) == Max(clock, now)
\* Variant B took the maximum before the decode (line 561) and hands over the
\* clock as it is after the decode (line 567).
startTimeB(clock, now) == clock

\* A clock that is not advanced by the buffer's duration.
advance_noDur(start, dur) == start

\* nextStartTimeRef.current += audioBuffer.duration
advance(start, dur) == start + dur

\* The history keeps the last three source.start calls since the last cancel: the
\* segment (numbered in arrival order), the time handed over, the buffer's duration, the context's currentTime at the call,
\* whether it is the first call since the cancel, and whether the segment had
\* been received before the cancel.
lastStarts(q) == IF Len(q) <= 3 THEN q ELSE Tail(q)

\* source.start(start) on context c for segment i, the clock's advance and the
\* registration in the active set.  A start time in the past plays at once.
schedule(s, i, start) ==
  LET c   == s.seg[i].ctx
      now == currentTime(s, c)
      d   == s.seg[i].dur
  IN [s EXCEPT !.nextStartTimeRef = advance(start, d),
               !.audioSourcesRef = @ \cup {i},
               !.seg[i].pc = "done",
               !.seg[i].intr = FALSE,
               !.seg[i].pre = FALSE,
               !.seg[i].text = << >>,
               !.seg[i].itext = << >>,
               !.seg[i].tc = FALSE,
               !.seg[i].src = "playing",
               !.seg[i].endAt = Max(start, now) + d,
               !.startLog = lastStarts(Append(@, [seg |-> i, start |-> start, dur |-> d,
                                                at |-> now,
                                                first |-> (s.startLog = << >>),
                                                pre |-> s.seg[i].pre]))]

\* The parts of a message read after its audio: the partial texts, the
\* turn-complete signal, the interrupted signal.
\* fin: the playback was called by a manual request (handleManualTranslate
\* through speakText, handleManualTTS), which goes on after it.
msgOf(sg) == [text |-> sg.text, itext |-> sg.itext, tc |-> sg.tc, intr |-> sg.intr,
              fin |-> sg.fin]

\* An update that puts the entry in the list twice.
prepend_twice(s, entry) ==
  LET updated == slice(<< entry, entry >> \o s.history, 0, HistoryCap)
  IN [s EXCEPT !.history = updated, !.storage = updated, !.nRecords = @ + 1]

\* setHistory(prev => { updated = [entry, ...prev].slice(0, 10); localStorage.setItem(...) })
prepend(s, entry) ==
  LET updated == slice(<< entry >> \o s.history, 0, HistoryCap)
  IN [s EXCEPT !.history = updated, !.storage = updated, !.nRecords = @ + 1]

\* Variant A, handleLiveMessage lines 223-246: the Transcript Accumulator.
transcriptA(s, m) ==
  LET fullText == s.currentOutputTranscriptionRef \o m.text
  IN IF ~m.tc THEN [s EXCEPT !.currentOutputTranscriptionRef = fullText]
     ELSE LET match == matchFields(fullText)
              t == [s EXCEPT !.currentOutputTranscriptionRef = << >>]
          IN IF match = << >> THEN t
             ELSE prepend(t, [id |-> s.nRecords + 1, languageName |-> match[1],
                              snippet |-> match[2], translation |-> match[3],
                              type |-> "voice"])

\* Variant B, onmessage lines 673-697.  (detectedLanguage is not modelled.)
transcriptB(s, m) ==
  LET inBuf  == s.currentInputTranscription \o m.itext
      outBuf == s.currentOutputTranscriptionRef \o m.text
  IN IF ~m.tc THEN [s EXCEPT !.currentInputTranscription = inBuf,
                             !.currentOutputTranscriptionRef = outBuf]
     ELSE LET inText  == trim(inBuf)
              outText == trim(outBuf)
              items1 == IF inText # << >>
                        THEN << [id |-> s.nRecords + 1, speaker |-> "user", text |-> inText] >>
                        ELSE << >>
              items2 == IF outText # << >>
                        THEN << [id |-> s.nRecords + Len(items1) + 1, speaker |-> "model",
                                 text |-> outText] >>
                        ELSE << >>
          IN [s EXCEPT !.transcriptions = @ \o items1 \o items2,
                       !.nRecords = @ + Len(items1) + Len(items2),
                       !.currentInputTranscription = << >>,
                       !.currentOutputTranscriptionRef = << >>]

\* Variant A, handleLiveMessage after `await playPcmData`: the interrupted signal.
restOfMessageA(s, intr) ==
  IF intr THEN [stopAllAudio(s) EXCEPT !.lastClear = "interrupted"] ELSE s

\* Variant B, onmessage after `await playAudioBytes`: the interrupted signal.
restOfMessageB(s, intr) ==
  IF intr THEN [interruptedB(s) EXCEPT !.lastClear = "interrupted"] ELSE s

\* Variant A, handleLiveMessage after the audio part.
afterAudioA(s, m) == restOfMessageA(transcriptA(s, m), m.intr)

\* Variant B, onmessage after the audio part.
afterAudioB(s, m) == restOfMessageB(transcriptB(s, m), m.intr)

\* Variant A, the finally of handleManualTranslate.
handleManualTranslate_finally(s) == [s EXCEPT !.isTranslating = FALSE, !.manual = "idle"]

\* Variant B, the catch and the finally of handleManualTTS (isTranslating stands
\* for isProcessingTTS).
handleManualTTS_catch(s) ==
  [s EXCEPT !.error = << "Translation or Speech failed. Check your API key and connection." >>,
            !.isTranslating = FALSE, !.manual = "idle"]

\* Variant B, handleManualTTS after `await playAudioBytes`: the entry of the
\* request, and the finally.
handleManualTTS_played(s) ==
  [s EXCEPT !.transcriptions = Append(@, [id |-> s.nRecords + 1, speaker |-> "model",
                                          text |-> << "a" >>]),
            !.nRecords = @ + 1,
            !.isTranslating = FALSE, !.manual = "idle"]

\* What runs when playPcmData returns: the rest of handleLiveMessage, or, for a
\* manual request, the end of speakText and the finally of handleManualTranslate.
afterPlayA(s, m) == IF m.fin THEN handleManualTranslate_finally(s) ELSE afterAudioA(s, m)

\* What runs when playAudioBytes returns: the rest of onmessage, or the rest of
\* handleManualTTS.
afterPlayB(s, m) == IF m.fin THEN handleManualTTS_played(s) ELSE afterAudioB(s, m)

\* Variant A, playPcmData from its call to `await unlockAudio()`.
playPcmData_call(s, kind, d, intr) ==
  LET i == nSegs(s) + 1
  IN unlockAudio([s EXCEPT !.seg[i] = [NoSeg EXCEPT !.pc = "unlock", !.kind = kind,
                                                     !.dur = d, !.intr = intr]])

\* Variant A, playPcmData from the resumption of `await unlockAudio()` to
\* `await decodeAudioData`: decode(base64Data) throws on malformed base64, and the
\* catch clears isSpeaking; the message handler then goes on.
playPcmData_unlocked(s, i) ==
  IF s.audioContextOutRef = 0
  THEN afterPlayA([s EXCEPT !.seg[i] = DroppedSeg], msgOf(s.seg[i]))
  ELSE LET t == [s EXCEPT !.seg[i].ctx = s.audioContextOutRef, !.isSpeaking = TRUE]
       IN IF s.seg[i].kind = "b64"
          THEN afterPlayA([t EXCEPT !.seg[i] = DroppedSeg, !.isSpeaking = FALSE],
                          msgOf(s.seg[i]))
          ELSE [t EXCEPT !.seg[i].pc = "decode"]

\* Variant A, playPcmData from the resumption of `await decodeAudioData` to its end,
\* then the rest of handleLiveMessage.
playPcmData_decoded(s, i) ==
  IF s.seg[i].kind = "pcm"
  THEN afterPlayA([s EXCEPT !.seg[i] = DroppedSeg, !.isSpeaking = FALSE],
                  msgOf(s.seg[i]))
  ELSE afterPlayA(
         schedule(s, i, startTimeA(s.nextStartTimeRef, currentTime(s, s.seg[i].ctx))),
         msgOf(s.seg[i]))

\* Variant B, playAudioBytes from its call to `await decodeAudioData`.  decode()
\* throwing rejects playAudioBytes and with it the onmessage handler, whose rest
\* is not run.
playAudioBytes_call(s, kind, d, intr) ==
  LET i  == nSegs(s) + 1
      t  == IF s.audioContextOutRef = 0 THEN newOutCtx(s) ELSE s
      c  == t.audioContextOutRef
      u  == [t EXCEPT !.nextStartTimeRef = Max(@, currentTime(t, c)),
                      !.seg[i] = [NoSeg EXCEPT !.pc = "decode", !.kind = kind, !.dur = d,
                                               !.intr = intr, !.ctx = c]]
  IN IF kind = "b64" THEN [u EXCEPT !.seg[i] = DroppedSeg] ELSE u

\* Variant B, playAudioBytes from the resumption of `await decodeAudioData`, then
\* the rest of onmessage.
playAudioBytes_decoded(s, i) ==
  IF s.seg[i].kind = "pcm"
  THEN IF s.seg[i].fin THEN handleManualTTS_catch([s EXCEPT !.seg[i] = DroppedSeg])
       ELSE [s EXCEPT !.seg[i] = DroppedSeg]
  ELSE afterPlayB(
         schedule(s, i, startTimeB(s.nextStartTimeRef, currentTime(s, s.seg[i].ctx))),
         msgOf(s.seg[i]))

\* Partial text that handlers awaiting their audio will still append.
RECURSIVE pendingText(_, _)
pendingText(s, I) ==
  IF I = {} THEN 0
  ELSE LET i == CHOOSE x \in I : TRUE
       IN Len(s.seg[i].text) + pendingText(s, I \ {i})

\* Variant A, handleLiveMessage, and variant B, onmessage, from the arrival of the
\* message to their first await, or to their end when the message has no audio.
onmessage(s, au, txt, itxt, tc, intr) ==
  LET i   == nSegs(s) + 1
      m   == [text |-> txt, itext |-> itxt, tc |-> tc, intr |-> intr, fin |-> FALSE]
      u   == [s EXCEPT !.turnArrived = IF tc THEN << >> ELSE @ \o txt]
  IN IF au.kind = "none"
     THEN IF s.variant = "A" THEN afterAudioA(u, m) ELSE afterAudioB(u, m)
     ELSE LET t == IF s.variant = "A" THEN playPcmData_call(u, au.kind, au.dur, intr)
                                      ELSE playAudioBytes_call(u, au.kind, au.dur, intr)
          IN IF t.seg[i].pc = "dropped" THEN t
             ELSE [t EXCEPT !.seg[i].text = m.text, !.seg[i].itext = m.itext,
                            !.seg[i].tc = m.tc]

\* An ended event that leaves the source in the active set.
onended_keep(s, i) ==
  LET t == [s EXCEPT !.seg[i] = EndedSeg]
  IN IF s.variant = "A" /\ t.audioSourcesRef = {}
     THEN [t EXCEPT !.isSpeaking = FALSE] ELSE t

\* source.onended
onended(s, i) ==
  LET t == [s EXCEPT !.audioSourcesRef = @ \ {i}, !.seg[i] = EndedSeg]
  IN IF s.variant = "A" /\ t.audioSourcesRef = {}
     THEN [t EXCEPT !.isSpeaking = FALSE] ELSE t


\* ------------------------------------------------------- session teardown
\* if (sessionRef.current) { try { sessionRef.current.close() } catch {} ; = null }
\* close() on a live connection starts its closing; its close event follows.
closeSession(s) ==
  IF s.sessionRef = 0 THEN s
  ELSE [s EXCEPT !.att[s.sessionRef].conn =
                     IF @ \in {"connecting", "open"} THEN "closing" ELSE @,
                 !.sessionRef = 0]

\* if (streamRef.current) { getTracks().forEach(t => t.stop()); = null }
stopTracks(s) ==
  IF s.streamRef = 0 THEN s
  ELSE [s EXCEPT !.att[s.streamRef].stream = "stopped", !.streamRef = 0]

\* if (audioContextInRef.current) { close(); = null }
closeInCtx(s) ==
  IF s.audioContextInRef = 0 THEN s
  ELSE [s EXCEPT !.att[s.audioContextInRef].inCtx = "closed", !.audioContextInRef = 0]

\* Variant B: if (audioContextOutRef.current) { close(); = null }
closeOutCtx(s) ==
  IF s.audioContextOutRef = 0 THEN s
  ELSE [s EXCEPT !.outCtx[s.audioContextOutRef].state = "closed",
                 !.audioContextOutRef = 0]

\* if (animationFrameRef.current) cancelAnimationFrame(animationFrameRef.current)
cancelFrame(s) == [s EXCEPT !.animationFrameRef = FALSE]

\* A stop that toggles isListening.
stopListening_toggle(s) ==
  [cancelFrame(closeInCtx(stopTracks(closeSession(s)))) EXCEPT !.isListening = ~@]

\* Variant A, stopListening.
stopListening(s) ==
  [cancelFrame(closeInCtx(stopTracks(closeSession(s)))) EXCEPT !.isListening = FALSE]

\* Variant B, stopSession: also closes the output context and stops the sources;
\* nextStartTimeRef is left as it is.
stopSession(s) ==
  noteCancel(
    [stopSources(cancelFrame(closeOutCtx(closeInCtx(stopTracks(closeSession(s))))))
       EXCEPT !.isListening = FALSE],
    "stop")

stop(s) == IF s.variant = "A" THEN stopListening(s) ELSE stopSession(s)

\* An interruption handled as a stop of the session.
interrupted_stops(s) == [stop(s) EXCEPT !.lastClear = "interrupted"]

\* The handling of the interrupted signal of an inbound message.
interrupted(s) ==
  [(IF s.variant = "A" THEN stopAllAudio(s) ELSE interruptedB(s))
     EXCEPT !.lastClear = "interrupted"]

\* ---------------------------------------------------------- session start
\* Variant A, startListening from its call to `await getUserMedia` (the await of
\* unlockAudio has no effect of its own).
startListening_call(s) ==
  LET k == nStarts(s) + 1
  IN [unlockAudio(stopAllAudio(s)) EXCEPT !.att[k].pc = "gum", !.error = << >>]

\* Variant B, startSession from its call to `await getUserMedia`.
startSession_call(s) ==
  LET k == nStarts(s) + 1
  IN [s EXCEPT !.att[k].pc = "gum", !.error = << >>]

\* Variant A, startListening from the resumption of getUserMedia to
\* `await sessionPromise`.
startListening_stream(s, k) ==
  [s EXCEPT !.streamRef = k, !.audioContextInRef = k,
            !.att[k].stream = "live", !.att[k].inCtx = "running",
            !.att[k].conn = "connecting", !.att[k].pc = "connecting"]

\* Variant B, startSession from the resumption of getUserMedia to
\* `await sessionPromise`: a new output context replaces the reference.
startSession_stream(s, k) ==
  newOutCtx([s EXCEPT !.streamRef = k, !.audioContextInRef = k,
                      !.att[k].stream = "live", !.att[k].inCtx = "running",
                      !.att[k].conn = "connecting", !.att[k].pc = "connecting"])

\* Variant A, the catch of startListening.
startListening_catch(s, k, err) ==
  [s EXCEPT !.att[k].pc = "failed",
            !.hasKey = IF includesApiKey(err.message) THEN FALSE ELSE @,
            !.error = IF err.name = "NotAllowedError" THEN << "Permission denied." >>
                      ELSE IF includesApiKey(err.message) THEN << "API Key required." >>
                      ELSE << "Error: ", err.message >>,
            !.isListening = FALSE]

\* Variant B, the catch of startSession.
startSession_catch(s, k, err) ==
  [s EXCEPT !.att[k].pc = "failed",
            !.error = << "Microphone access denied or connection failed." >>]

\* Variant A, onerror.
onerrorA(s, e) ==
  stopListening([s EXCEPT !.hasKey = IF includesApiKey(e) \/ includesNotFound(e)
                                     THEN FALSE ELSE @,
                          !.error = << "Connection error." >>])

\* Variant B, onerror.
onerrorB(s, e) == stopSession([s EXCEPT !.error = << "Connection lost." >>])

\* handleOpenKeyDialog, after openSelectKey.
handleOpenKeyDialog(s) == [s EXCEPT !.hasKey = TRUE]

\* updateVisuals as called from onopen: isListening is the value of the render
\* whose closure it is.
updateVisuals(s, isListeningOfClosure) ==
  IF isListeningOfClosure THEN [s EXCEPT !.animationFrameRef = TRUE] ELSE s

\* Variant A, onopen of attempt k.  The script processor lives on the context
\* audioContextInRef names now and sends to k's sessionPromise.  startListening
\* is only reached from a render in which isListening is false (line 362).
onopenA(s, k) ==
  IF s.audioContextInRef = 0 \/ s.streamRef = 0 THEN s
  ELSE updateVisuals([s EXCEPT !.att[k].wired = s.audioContextInRef,
                               !.isListening = TRUE], FALSE)

\* Variant B, onopen of attempt k.  highPassFilter belongs to k's own input
\* context: connecting a source of another context to it throws.
onopenB(s, k) ==
  IF s.audioContextInRef = 0 THEN s
  ELSE IF s.audioContextInRef # k THEN s
  ELSE updateVisuals([s EXCEPT !.att[k].wired = s.audioContextInRef,
                               !.isListening = TRUE], FALSE)

\* A send that delivers the frame twice.
send_twice(s, k, f) ==
  IF s.att[k].conn = "open"
  THEN [s EXCEPT !.sent = @ \o << [conn |-> k, frame |-> f, after |-> s.lastClear],
                                 [conn |-> k, frame |-> f, after |-> s.lastClear] >>]
  ELSE s

\* sendRealtimeInput of frame f on k's session: delivered on an open connection.
send(s, k, f) ==
  IF s.att[k].conn = "open"
  THEN [s EXCEPT !.sent = Append(@, [conn |-> k, frame |-> f, after |-> s.lastClear])]
  ELSE s

RECURSIVE sendAll(_, _, _)
sendAll(s, k, fs) ==
  IF fs = << >> THEN s ELSE sendAll(send(s, k, Head(fs)), k, Tail(fs))

\* `sessionRef.current = await sessionPromise`: the promise's then-callbacks
\* registered by onaudioprocess run first, in registration order.
sessionResolved(s, k) ==
  [sendAll(s, k, s.att[k].queued) EXCEPT !.att[k].queued = << >>,
                                        !.att[k].pc = "resolved",
                                        !.sessionRef = k]

\* The frame size the session's script processor was created with.
frameSize(s) == IF s.variant = "A" THEN FrameSizeA ELSE FrameSizeB

\* createBlob(inputData) of utils/audioUtils on a frame of n samples: the encoded
\* frame, or a rejection (it throws) when n is not the configured frame size.
createBlob(n, size) == IF n = size THEN "blob" ELSE "rejected"

\* A handler that sends the frame whatever createBlob did.
onaudioprocess_unchecked(s, k, n) ==
  LET f == s.nCaptured + 1
      t == [s EXCEPT !.nCaptured = f,
                     !.rejected = IF createBlob(n, frameSize(s)) = "rejected"
                                  THEN @ \cup {f} ELSE @]
  IN IF s.att[k].pc = "resolved" THEN send(t, k, f)
     ELSE IF s.att[k].pc = "connecting" THEN [t EXCEPT !.att[k].queued = Append(@, f)]
     ELSE t

\* scriptProcessor.onaudioprocess of the processor wired by attempt k, on a frame
\* of n samples: createBlob(inputData), then
\* sessionPromise.then(s => s.sendRealtimeInput(...)).  When createBlob throws,
\* the handler ends there.
onaudioprocess(s, k, n) ==
  LET f == s.nCaptured + 1
      t == [s EXCEPT !.nCaptured = f]
  IN IF createBlob(n, frameSize(s)) = "rejected" THEN [t EXCEPT !.rejected = @ \cup {f}]
     ELSE IF s.att[k].pc = "resolved" THEN send(t, k, f)
     ELSE IF s.att[k].pc = "connecting" THEN [t EXCEPT !.att[k].queued = Append(@, f)]
     ELSE t

\* ---------------------------------------------------- manual translation
\* Variant A, handleManualTranslate from its call to `await generateContent`.
handleManualTranslate_call(s) ==
  [stopAllAudio(s) EXCEPT !.isTranslating = TRUE, !.error = << >>, !.manual = "translate"]

\* Variant A, handleManualTranslate from the reply of the translation to the
\* await in speakText: the record of the request, then speakText up to its
\* `await generateContent`.  An empty translation skips both.
handleManualTranslate_reply(s, translation) ==
  IF translation = << >>
  THEN [s EXCEPT !.isTranslating = FALSE, !.manual = "idle"]
  ELSE [stopAllAudio(prepend(s, [id |-> s.nRecords + 1, languageName |-> << "Text Input" >>,
                                  snippet |-> << "a" >>, translation |-> translation,
                                  type |-> "text"]))
          EXCEPT !.isSpeaking = TRUE, !.manual = "speak"]

\* Variant A, the catch and the finally of handleManualTranslate.
handleManualTranslate_catch(s, err) ==
  [s EXCEPT !.hasKey = IF includesApiKey(err.message) THEN FALSE ELSE @,
            !.error = << "Translation failed." >>,
            !.isTranslating = FALSE, !.manual = "idle"]

\* Variant A, speakText from the reply of the speech request, when the reply
\* carries no audio or the request failed, and the finally of
\* handleManualTranslate.
speakText_noAudio(s) ==
  [s EXCEPT !.isSpeaking = FALSE, !.isTranslating = FALSE, !.manual = "idle"]

\* Variant A, speakText from the reply of the speech request of a manual
\* translation, when the reply carries audio: playPcmData up to its first await.
speakText_audio(s, au) ==
  LET i == nSegs(s) + 1
  IN [playPcmData_call(s, au.kind, au.dur, FALSE) EXCEPT !.seg[i].fin = TRUE,
                                                         !.manual = "play"]

\* A handler that starts a request whatever isTranslating is.
handleManualTranslate_noGuard(s, blank) ==
  IF blank THEN s ELSE handleManualTranslate_call(s)

\* Variant A, handleManualTranslate: `if (!inputText.trim() || isTranslating) return`.
handleManualTranslate(s, blank) ==
  IF blank \/ s.isTranslating THEN s ELSE handleManualTranslate_call(s)

\* Variant B, handleManualTTS: `if (!textToSpeak.trim() || isProcessingTTS) return`,
\* then up to the await of the translation request.
handleManualTTS(s, blank) ==
  IF blank \/ s.isTranslating THEN s
  ELSE [s EXCEPT !.isTranslating = TRUE, !.error = << >>, !.manual = "translate"]

\* Variant B, handleManualTTS from the reply of the translation request to the
\* await of the speech request: an empty translation is replaced by the input.
handleManualTTS_translated(s) == [s EXCEPT !.manual = "speak"]

\* Variant B, handleManualTTS from the reply of the speech request: with audio,
\* playAudioBytes up to its await (decode() throwing goes to the catch); without,
\* the finally.
handleManualTTS_spoken(s, au) ==
  IF au.kind = "none" THEN [s EXCEPT !.isTranslating = FALSE, !.manual = "idle"]
  ELSE LET i == nSegs(s) + 1
           t == playAudioBytes_call(s, au.kind, au.dur, FALSE)
       IN IF t.seg[i].pc = "dropped" THEN handleManualTTS_catch(t)
          ELSE [t EXCEPT !.seg[i].fin = TRUE, !.manual = "play"]

\* Variant A, speakText called from an item of the history panel, up to its
\* `await generateContent`.
speakText_call(s) ==
  [stopAllAudio(s) EXCEPT !.isSpeaking = TRUE, !.speakReq = Append(@, "synth")]

\* Variant A, speakText of call r from the reply of the speech request:
\* `if (data) await playPcmData(data) else setIsSpeaking(false)`.
speakText_reply(s, r, au) ==
  IF au.kind = "none"
  THEN [s EXCEPT !.speakReq[r] = "done", !.isSpeaking = FALSE]
  ELSE LET i == nSegs(s) + 1
       IN [playPcmData_call(s, au.kind, au.dur, FALSE)
             EXCEPT !.speakReq[r] = "done", !.seg[i].replay = r]

\* Variant A, the catch of speakText: the speech request failed.
speakText_catch(s, r) == [s EXCEPT !.speakReq[r] = "done", !.isSpeaking = FALSE]

\* The Clear button of the history panel: setHistory([]).
clearHistory(s) == [s EXCEPT !.history = << >>]

\* ------------------------------------------------------------------ actions
\* The main button: startListening / startSession when isListening is false.
StartClickUpTo(max) ==
  /\ ~isListening
  /\ hasKey
  /\ nStarts(S) < max
  /\ Apply(IF variant = "A" THEN startListening_call(S) ELSE startSession_call(S))

StartClick == StartClickUpTo(MaxStarts)

\* The main button: stopListening / stopSession when isListening is true.
StopClick ==
  /\ isListening
  /\ hasKey
  /\ Apply(stop(S))

GumGranted(k) ==
  /\ att[k].pc = "gum"
  /\ Apply(IF variant = "A" THEN startListening_stream(S, k) ELSE startSession_stream(S, k))

GumDeniedWith(k, err) ==
  /\ att[k].pc = "gum"
  /\ Apply(IF variant = "A" THEN startListening_catch(S, k, err)
                            ELSE startSession_catch(S, k, err))

GumDenied(k) == \E err \in GumErrors : GumDeniedWith(k, err)

ConnOpen(k) ==
  /\ att[k].conn = "connecting"
  /\ LET t == [S EXCEPT !.att[k].conn = "open", !.att[k].opened = TRUE]
     IN Apply(IF variant = "A" THEN onopenA(t, k) ELSE onopenB(t, k))

ConnectResolve(k) ==
  /\ att[k].pc = "connecting"
  /\ att[k].opened
  /\ Apply(sessionResolved(S, k))

ConnectFailWith(k, err) ==
  /\ att[k].pc = "connecting"
  /\ ~att[k].opened
  /\ LET t == [S EXCEPT !.att[k].conn = IF @ = "connecting" THEN "closed" ELSE @]
     IN Apply(IF variant = "A" THEN startListening_catch(t, k, err)
                               ELSE startSession_catch(t, k, err))

ConnectFail(k) == \E err \in ConnectErrors : ConnectFailWith(k, err)

\* onerror: the connection is lost; its close event follows.
ConnErrorWith(k, e) ==
  /\ att[k].conn \in {"connecting", "open"}
  /\ LET t == [S EXCEPT !.att[k].conn = "closing"]
     IN Apply(IF variant = "A" THEN onerrorA(t, e) ELSE onerrorB(t, e))

ConnError(k) == \E e \in ErrorTexts : ConnErrorWith(k, e)

\* The button of the setup screen (variant A).
OpenKeyDialog ==
  /\ variant = "A"
  /\ ~hasKey
  /\ Apply(handleOpenKeyDialog(S))

\* onclose: after a close() of ours, after an error, or closed by the remote.
ConnClose(k) ==
  /\ att[k].conn \in {"open", "closing"}
  /\ Apply(stop([S EXCEPT !.att[k].conn = "closed"]))

\* The audioprocess event of the processor wired by attempt k, with a frame of
\* n samples.
CaptureOf(k, n) ==
  /\ att[k].wired # 0
  /\ att[att[k].wired].inCtx = "running"
  /\ nCaptured < MaxFrames
  /\ Apply(onaudioprocess(S, k, n))

\* The event with a frame of the size the processor was created with.
Capture(k) == CaptureOf(k, frameSize(S))

\* An inbound message with an audio part.
AudioMessage(k, kind, d, intr) ==
  /\ att[k].conn = "open"
  /\ nSegs(S) < MaxSegs
  /\ Apply(IF variant = "A" THEN playPcmData_call(S, kind, d, intr)
                            ELSE playAudioBytes_call(S, kind, d, intr))

\* An inbound message with any of an audio part, partial texts and the
\* turn-complete signal.
ServerMessage(k, au, txt, itxt, tc) ==
  /\ att[k].conn = "open"
  /\ au.kind # "none" => nSegs(S) < MaxSegs
  /\ Len(currentOutputTranscriptionRef) + pendingText(S, DOMAIN seg) + Len(txt) <= MaxText
  /\ Len(currentInputTranscription) + Len(itxt) <= MaxText
  /\ Apply(onmessage(S, au, txt, itxt, tc, FALSE))

\* A message of the turns up to the first record.
TurnMessage(k, au, txt, tc) ==
  /\ nRecords = 0
  /\ ServerMessage(k, au, txt, << >>, tc)

\* A message of the turns up to the first record, with any of an audio part, a
\* partial text, the turn-complete signal and the interrupted signal.
SignalMessage(k, au, txt, tc, intr) ==
  /\ nRecords = 0
  /\ att[k].conn = "open"
  /\ au.kind # "none" => nSegs(S) < MaxSegs
  /\ Len(currentOutputTranscriptionRef) + pendingText(S, DOMAIN seg) + Len(txt) <= MaxText
  /\ Apply(onmessage(S, au, txt, << >>, tc, intr))

\* A message that carries a whole transcript and completes its turn.
HistoryMessage(k, txt, itxt) ==
  /\ nRecords < MaxRecords
  /\ ServerMessage(k, NoAudio, txt, itxt, TRUE)

\* Variant A, the translate button.
ManualTranslateClick ==
  /\ variant = "A"
  /\ hasKey
  /\ ~isTranslating
  /\ nRecords < MaxRecords
  /\ Apply(handleManualTranslate_call(S))

ManualTranslateReply(translation) ==
  /\ manual = "translate"
  /\ Apply(handleManualTranslate_reply(S, translation))

ManualTranslateFail(err) ==
  /\ manual = "translate"
  /\ Apply(handleManualTranslate_catch(S, err))

SpeakReply ==
  /\ manual = "speak"
  /\ Apply(speakText_noAudio(S))

\* The Enter key in the text field (or the button): handleManualTranslate /
\* handleManualTTS, with a blank or a non-blank input.
ManualKey(blank) ==
  /\ hasKey
  /\ nRecords < MaxRecords
  /\ Apply(IF variant = "A" THEN handleManualTranslate(S, blank)
                            ELSE handleManualTTS(S, blank))

\* The reply of the translation request.
ManualReply(translation) ==
  /\ manual = "translate"
  /\ Apply(IF variant = "A" THEN handleManualTranslate_reply(S, translation)
                            ELSE handleManualTTS_translated(S))

\* The failure of the translation request or of the speech request.  (speakText
\* catches the failure of its request: only the finally is left.)
ManualFail(err) ==
  /\ manual \in {"translate", "speak"}
  /\ Apply(IF variant = "B" THEN handleManualTTS_catch(S)
           ELSE IF manual = "translate" THEN handleManualTranslate_catch(S, err)
           ELSE speakText_noAudio(S))

\* The reply of the speech request, with audio or without.
ManualSpeech(au) ==
  /\ manual = "speak"
  /\ au.kind # "none" => nSegs(S) < MaxSegs
  /\ Apply(IF variant = "A"
           THEN (IF au.kind = "none" THEN speakText_noAudio(S) ELSE speakText_audio(S, au))
           ELSE handleManualTTS_spoken(S, au))

\* Variant A, a click on an item of the history panel.
ReplayClick ==
  /\ variant = "A"
  /\ hasKey
  /\ history # << >>
  /\ Len(speakReq) < MaxReplays
  /\ Apply(speakText_call(S))

\* The reply of the speech request of call r: audio, or none.
SynthReply(r, au) ==
  /\ r \in DOMAIN speakReq
  /\ speakReq[r] = "synth"
  /\ au.kind # "none" => nSegs(S) < MaxSegs
  /\ Apply(speakText_reply(S, r, au))

SynthFail(r) ==
  /\ r \in DOMAIN speakReq
  /\ speakReq[r] = "synth"
  /\ Apply(speakText_catch(S, r))

ClearHistory ==
  /\ variant = "A"
  /\ hasKey
  /\ history # << >>
  /\ Apply(clearHistory(S))

\* An inbound message that carries the interrupted signal and no audio.
InterruptedMessage(k) ==
  /\ att[k].conn = "open"
  /\ Apply(interrupted(S))

UnlockResumed(i) ==
  /\ seg[i].pc = "unlock"
  /\ Apply(playPcmData_unlocked(S, i))

DecodeResumed(i) ==
  /\ seg[i].pc = "decode"
  /\ Apply(IF variant = "A" THEN playPcmData_decoded(S, i) ELSE playAudioBytes_decoded(S, i))

\* The ended event of a source: its buffer has played out, or it was stopped.
SourceEnded(i) ==
  /\ \/ seg[i].src = "stopped"
     \/ /\ seg[i].src = "playing"
        /\ outCtx[seg[i].ctx].state = "running"
        /\ outCtx[seg[i].ctx].time >= seg[i].endAt
  /\ Apply(onended(S, i))

\* The output device clock advances in every running output context.
TickUpTo(max) ==
  /\ \E c \in DOMAIN outCtx : outCtx[c].state = "running"
  /\ \A c \in DOMAIN outCtx : outCtx[c].state = "running" => outCtx[c].time < max
  /\ outCtx' = [c \in DOMAIN outCtx |->
                  IF outCtx[c].state = "running"
                  THEN [outCtx[c] EXCEPT !.time = @ + 1] ELSE outCtx[c]]
  /\ UNCHANGED << variant, isListening, isSpeaking, sessionRef, streamRef,
                  audioContextInRef, audioContextOutRef, animationFrameRef,
                  nextStartTimeRef, audioSourcesRef, att, seg, startLog, lastClear,
                  nCaptured, sent, error, hasKey, currentOutputTranscriptionRef,
                  currentInputTranscription, history, transcriptions, storage,
                  isTranslating, manual, nRecords, rejected, speakReq,
                  turnArrived >>

Tick == TickUpTo(MaxTime)

\* The next segment of the scenario: audio only, of the scenario's next duration.
ScenarioMessage(k) ==
  /\ att[k].conn = "open"
  /\ nSegs(S) < Len(ScenarioDurations)
  /\ Apply(onmessage(S, [kind |-> "ok", dur |-> ScenarioDurations[nSegs(S) + 1]],
                     << >>, << >>, FALSE, FALSE))

ScenarioTick == TickUpTo(MaxScenarioTime)

Next ==
  \/ StartClick
  \/ StopClick
  \/ \E k \in 1..MaxStarts : GumGranted(k)
  \/ \E k \in 1..MaxStarts : GumDenied(k)
  \/ \E k \in 1..MaxStarts : ConnOpen(k)
  \/ \E k \in 1..MaxStarts : ConnectResolve(k)
  \/ \E k \in 1..MaxStarts : ConnectFail(k)
  \/ \E k \in 1..MaxStarts : ConnError(k)
  \/ \E k \in 1..MaxStarts : ConnClose(k)
  \/ OpenKeyDialog
  \/ \E k \in 1..MaxStarts : Capture(k)
  \/ \E k \in 1..MaxStarts, p \in Payloads, intr \in BOOLEAN :
        AudioMessage(k, p.kind, p.dur, intr)
  \/ \E k \in 1..MaxStarts : InterruptedMessage(k)
  \/ \E i \in 1..MaxSegs : UnlockResumed(i)
  \/ \E i \in 1..MaxSegs : DecodeResumed(i)
  \/ \E i \in 1..MaxSegs : SourceEnded(i)
  \/ Tick

Spec == Init /\ [][Next]_vars


\* The first start() of a behaviour.
FirstStartClick == nStarts(S) = 0 /\ StartClick

\* The session lifecycle: every start, stop and connection event of up to
\* MaxStarts start() calls.
NextSession ==
  \/ StartClick
  \/ StopClick
  \/ \E k \in 1..MaxStarts : GumGranted(k)
  \/ \E k \in 1..MaxStarts : GumDenied(k)
  \/ \E k \in 1..MaxStarts : ConnOpen(k)
  \/ \E k \in 1..MaxStarts : ConnectResolve(k)
  \/ \E k \in 1..MaxStarts : ConnectFail(k)
  \/ \E k \in 1..MaxStarts : ConnError(k)
  \/ \E k \in 1..MaxStarts : ConnClose(k)
  \/ OpenKeyDialog

SpecSession == Init /\ [][NextSession]_vars

\* The sessions of up to MaxReopenStarts start() calls whose microphone is
\* granted: their open, resolve, error and close events in any order.
ReopenStartClick == StartClickUpTo(MaxReopenStarts)

NextReopen ==
  \/ ReopenStartClick
  \/ StopClick
  \/ \E k \in 1..MaxReopenStarts : GumGranted(k)
  \/ \E k \in 1..MaxReopenStarts : ConnOpen(k)
  \/ \E k \in 1..MaxReopenStarts : ConnectResolve(k)
  \/ \E k \in 1..MaxReopenStarts : ConnErrorWith(k, "Network failure")
  \/ \E k \in 1..MaxReopenStarts : ConnClose(k)

SpecReopen == InitOf(MaxReopenStarts, MaxSegs) /\ [][NextReopen]_vars

\* The capture path of one session: its start, its connection events, the
\* captured frames and the interrupted signal.
NextCapture ==
  \/ FirstStartClick
  \/ StopClick
  \/ \E k \in 1..MaxStarts : GumGranted(k)
  \/ \E k \in 1..MaxStarts : ConnOpen(k)
  \/ \E k \in 1..MaxStarts : ConnectResolve(k)
  \/ \E k \in 1..MaxStarts : ConnectFail(k)
  \/ \E k \in 1..MaxStarts : ConnError(k)
  \/ \E k \in 1..MaxStarts : ConnClose(k)
  \/ \E k \in 1..MaxStarts : Capture(k)
  \/ \E k \in 1..MaxStarts : InterruptedMessage(k)

SpecCapture == Init /\ [][NextCapture]_vars

\* The Capture Encoder of one session: frames of either length, at any point of
\* the session's life.
NextEncode ==
  \/ FirstStartClick
  \/ StopClick
  \/ \E k \in 1..MaxStarts : GumGranted(k)
  \/ \E k \in 1..MaxStarts : ConnOpen(k)
  \/ \E k \in 1..MaxStarts : ConnectResolve(k)
  \/ \E k \in 1..MaxStarts : ConnError(k)
  \/ \E k \in 1..MaxStarts : ConnClose(k)
  \/ \E k \in 1..MaxStarts, n \in FrameLengths : CaptureOf(k, n)

SpecEncode == Init /\ [][NextEncode]_vars

\* The playback scheduler in one session: messages that carry audio only,
\* interruptions, stop and the output clock.
NextSched ==
  \/ FirstStartClick
  \/ StopClick
  \/ \E k \in 1..MaxStarts : GumGranted(k)
  \/ \E k \in 1..MaxStarts : ConnOpen(k)
  \/ \E k \in 1..MaxStarts, p \in Payloads, intr \in {FALSE} :
        AudioMessage(k, p.kind, p.dur, intr)
  \/ \E k \in 1..MaxStarts : InterruptedMessage(k)
  \/ \E i \in 1..MaxSegs : UnlockResumed(i)
  \/ \E i \in 1..MaxSegs : DecodeResumed(i)
  \/ \E i \in 1..MaxSegs : SourceEnded(i)
  \/ Tick

SpecSched == Init /\ [][NextSched]_vars

\* The turns of one session: messages with audio, a partial text of one letter
\* and the turn-complete signal, in any combination.
NextTurn ==
  \/ FirstStartClick
  \/ \E k \in 1..MaxStarts : GumGranted(k)
  \/ \E k \in 1..MaxStarts : ConnOpen(k)
  \/ \E k \in 1..MaxStarts, au \in {NoAudio, [kind |-> "ok", dur |-> 1]},
        txt \in {<< >>, << "a" >>}, tc \in BOOLEAN :
        TurnMessage(k, au, txt, tc)
  \/ \E i \in 1..MaxSegs : UnlockResumed(i)
  \/ \E i \in 1..MaxSegs : DecodeResumed(i)

SpecTurn == Init /\ [][NextTurn]_vars

\* The audio parts of the messages of SpecDecodeFail: one that decodes and the
\* two that fail.
FailPayloads == {[kind |-> "ok", dur |-> 1], [kind |-> "b64", dur |-> 0],
                 [kind |-> "pcm", dur |-> 0]}

\* The messages of one session whose audio part may fail to decode and that
\* carry any of a partial text, the turn-complete signal and the interrupted
\* signal.
NextDecodeFail ==
  \/ FirstStartClick
  \/ \E k \in 1..MaxStarts : GumGranted(k)
  \/ \E k \in 1..MaxStarts : ConnOpen(k)
  \/ \E k \in 1..MaxStarts, au \in FailPayloads, txt \in {<< >>, << "a" >>},
        tc \in BOOLEAN, intr \in BOOLEAN :
        SignalMessage(k, au, txt, tc, intr)
  \/ \E i \in 1..MaxSegs : UnlockResumed(i)
  \/ \E i \in 1..MaxSegs : DecodeResumed(i)

SpecDecodeFail == Init /\ [][NextDecodeFail]_vars

\* The Transcript Accumulator in one session: messages without audio whose
\* partial texts come character by character, and turn-complete signals.
NextParse ==
  \/ FirstStartClick
  \/ \E k \in 1..MaxStarts : GumGranted(k)
  \/ \E k \in 1..MaxStarts : ConnOpen(k)
  \/ \E k \in 1..MaxStarts, txt \in PartialChunks \cup {<< >>}, tc \in BOOLEAN :
        TurnMessage(k, NoAudio, txt, tc)

SpecParse == Init /\ [][NextParse]_vars

\* The transcript buffer across sessions: up to MaxStarts sessions, started and
\* stopped by the button, whose messages carry a partial text of one letter or
\* the turn-complete signal and no audio.
NextCarry ==
  \/ StartClick
  \/ StopClick
  \/ \E k \in 1..MaxStarts : GumGranted(k)
  \/ \E k \in 1..MaxStarts : ConnOpen(k)
  \/ \E k \in 1..MaxStarts : ConnectResolve(k)
  \/ \E k \in 1..MaxStarts : ConnClose(k)
  \/ \E k \in 1..MaxStarts, txt \in {<< >>, << "a" >>}, tc \in BOOLEAN :
        TurnMessage(k, NoAudio, txt, tc)

SpecCarry == Init /\ [][NextCarry]_vars

\* Replay from the history panel: one manual translation makes the record, then
\* up to MaxReplays clicks on it, the replies of their speech requests and the
\* playback of their audio.
FirstTranslateClick == nRecords = 0 /\ ManualTranslateClick

NextReplay ==
  \/ FirstTranslateClick
  \/ ManualTranslateReply(<< "a" >>)
  \/ SpeakReply
  \/ ReplayClick
  \/ \E r \in 1..MaxReplays, au \in {NoAudio} \cup Payloads : SynthReply(r, au)
  \/ \E r \in 1..MaxReplays : SynthFail(r)
  \/ \E i \in 1..MaxSegs : UnlockResumed(i)
  \/ \E i \in 1..MaxSegs : DecodeResumed(i)
  \/ \E i \in 1..MaxSegs : SourceEnded(i)
  \/ Tick

SpecReplay == Init /\ [][NextReplay]_vars

\* Manual requests: the Enter key at any time, with blank or non-blank input,
\* and the outcomes of the requests and of the playback they await.
ManualOutcome ==
  \/ \E translation \in {<< >>, << "a" >>} : ManualReply(translation)
  \/ \E err \in ConnectErrors : ManualFail(err)
  \/ \E au \in {NoAudio} \cup Payloads : ManualSpeech(au)

NextManual ==
  \/ \E blank \in BOOLEAN : ManualKey(blank)
  \/ ManualOutcome
  \/ \E i \in 1..MaxSegs : UnlockResumed(i)
  \/ \E i \in 1..MaxSegs : DecodeResumed(i)

\* Every request is answered or fails, and every await of the playback resumes.
SpecManual ==
  /\ Init /\ [][NextManual]_vars
  /\ WF_vars(ManualOutcome)
  /\ WF_vars(\E i \in 1..MaxSegs : UnlockResumed(i))
  /\ WF_vars(\E i \in 1..MaxSegs : DecodeResumed(i))

\* The end-to-end playback scenario: one session receives the three segments of
\* ScenarioDurations, audio only, while the output clock runs.
NextScenario ==
  \/ FirstStartClick
  \/ \E k \in 1..MaxStarts : GumGranted(k)
  \/ \E k \in 1..MaxStarts : ConnOpen(k)
  \/ \E k \in 1..MaxStarts : ScenarioMessage(k)
  \/ \E i \in 1..Len(ScenarioDurations) : UnlockResumed(i)
  \/ \E i \in 1..Len(ScenarioDurations) : DecodeResumed(i)
  \/ \E i \in 1..Len(ScenarioDurations) : SourceEnded(i)
  \/ ScenarioTick

SpecScenario == InitSegs(Len(ScenarioDurations)) /\ [][NextScenario]_vars

\* The history of one session: turns whose transcript comes whole, manual
\* translations and the Clear button.
NextHistory ==
  \/ FirstStartClick
  \/ \E k \in 1..MaxStarts : GumGranted(k)
  \/ \E k \in 1..MaxStarts : ConnOpen(k)
  \/ \E k \in 1..MaxStarts, txt \in {WholeChunk}, itxt \in {<< >>, << "a" >>} :
        HistoryMessage(k, txt, itxt)
  \/ ManualTranslateClick
  \/ \E translation \in {<< >>, << "a" >>} : ManualTranslateReply(translation)
  \/ \E err \in ConnectErrors : ManualTranslateFail(err)
  \/ SpeakReply
  \/ ClearHistory

SpecHistory == Init /\ [][NextHistory]_vars


C2_StartNotBeforeNow ==
  \A a \in 1..Len(startLog) : startLog[a].start >= startLog[a].at

\* ------------------------------------------------------------------ C3
\* C3: a step that handles the interrupted signal (or runs stopAllAudio at the
\* start of startListening) stops every source of the active set, leaves the
\* active set empty and the PlaybackClock at zero.
C3_CancelAll ==
  [][ ((\E k \in 1..MaxStarts : InterruptedMessage(k)) \/ (variant = "A" /\ StartClick))
        => /\ audioSourcesRef' = {}
           /\ nextStartTimeRef' = 0
           /\ \A i \in audioSourcesRef : seg'[i].src = "stopped" ]_vars

\* An interruption has stopped a source that was still to play, and nothing has
\* been scheduled since.
C3_Witness ==
  /\ lastClear = "interrupted"
  /\ startLog = << >>
  /\ \E i \in 1..MaxSegs : seg[i].src = "stopped"
  /\ audioSourcesRef = {}
  /\ nextStartTimeRef = 0

SessionConnecting ==
  /\ ~isListening
  /\ \E k \in 1..MaxStarts :
        \/ att[k].pc = "gum"
        \/ att[k].pc = "connecting" /\ att[k].conn = "connecting"
SessionIdle == ~isListening /\ ~SessionConnecting

\* C5: a start() made while the session is not Idle changes nothing.
C5_StartRejectedUnlessIdle ==
  [][ (~SessionIdle /\ StartClick) => UNCHANGED vars ]_vars

\* ------------------------------------------------------------------ C6
LiveStreams  == {k \in 1..MaxStarts : att[k].stream = "live"}
LiveInCtxs   == {k \in 1..MaxStarts : att[k].inCtx = "running"}
LiveConns    == {k \in 1..MaxStarts : att[k].conn \in {"connecting", "open"}}
LiveOutCtxs  == {c \in DOMAIN outCtx : outCtx[c].state = "running"}

\* C6: at most one microphone stream, one output context and one remote
\* connection are alive at any time.
C6_AtMostOneOfEach ==
  /\ Cardinality(LiveStreams) <= 1
  /\ Cardinality(LiveOutCtxs) <= 1
  /\ Cardinality(LiveConns) <= 1

\* ------------------------------------------------------------------ C7
\* C7: after the stop() of the main button, no remote connection, microphone
\* stream or input context is live and no frame request is pending.
C7_StopReleasesAll ==
  [][ StopClick => /\ LiveConns' = {}
                   /\ LiveStreams' = {}
                   /\ LiveInCtxs' = {}
                   /\ ~animationFrameRef' ]_vars

\* ------------------------------------------------------------------ C8
\* C8: in every state, stop() leaves isListening false and the session, stream
\* and input context references null, and a second stop() right after it changes
\* nothing.
C8_StopIdempotent ==
  LET t == stop(S)
  IN /\ stop(t) = t
     /\ ~t.isListening
     /\ t.sessionRef = 0 /\ t.streamRef = 0 /\ t.audioContextInRef = 0

\* stop() has closed the session of a resolved start and released its stream;
\* the close event of that connection, which calls stop() again, is pending.
C8_Witness ==
  \E k \in 1..MaxStarts :
     /\ att[k].pc = "resolved" /\ att[k].conn = "closing"
     /\ att[k].stream = "stopped" /\ att[k].inCtx = "closed"
     /\ sessionRef = 0 /\ ~isListening

\* ------------------------------------------------------------------ C9
\* Frames of the processor wired by attempt k reach the remote connection.
CanSend(k) ==
  /\ att[k].wired # 0
  /\ att[att[k].wired].inCtx = "running"
  /\ att[k].pc = "resolved"
  /\ att[k].conn = "open"

\* C9: a step that handles the interrupted signal leaves isListening, the
\* references, the streams, input contexts, connections and wiring of every
\* start and the frames sent as they were; where frames reached the remote
\* connection before, they still do.
C9_InterruptedLeavesCapture ==
  [][ (\E k \in 1..MaxStarts : InterruptedMessage(k))
        => /\ UNCHANGED << isListening, sessionRef, streamRef, audioContextInRef,
                           att, nCaptured, sent >>
           /\ \A k \in 1..MaxStarts : CanSend(k) => CanSend(k)' ]_vars

\* A frame captured after an interruption was sent on the open connection.
C9_Witness ==
  \E j \in 1..Len(sent) : sent[j].after = "interrupted" /\ isListening

\* ------------------------------------------------------------------ C10
\* C10: a step in which a segment is discarded because its decoding failed
\* leaves the PlaybackClock, the active set and the started sources as they were.
C10_FailedSegmentDiscarded ==
  [][ (\E i \in 1..MaxSegs : seg[i].pc # "dropped" /\ seg'[i].pc = "dropped")
        => /\ nextStartTimeRef' = nextStartTimeRef
           /\ audioSourcesRef' = audioSourcesRef
           /\ startLog' = startLog ]_vars

\* ------------------------------------------------------------------ C11
\* q is p with characters left out.
RECURSIVE IsSubseq(_, _)
IsSubseq(q, p) ==
  IF q = << >> THEN TRUE
  ELSE IF p = << >> THEN FALSE
  ELSE IF Head(q) = Head(p) THEN IsSubseq(Tail(q), Tail(p))
  ELSE IsSubseq(q, Tail(p))

\* C11: when a message without audio brings the turn-complete signal, which its
\* handler processes at once, the buffer holds every partial text received in
\* the turn before it.
C11_TurnCompleteAfterPartials ==
  [][ \A k \in 1..MaxStarts, txt \in {<< >>, << "a" >>} :
        TurnMessage(k, NoAudio, txt, TRUE)
          => IsSubseq(turnArrived, currentOutputTranscriptionRef) ]_vars

\* ------------------------------------------------------------------ C12
\* An error text that tells of a missing or invalid credential.
CredentialText(e) == includesApiKey(e) \/ includesNotFound(e)
\* The setup-required state is shown.
AuthRequired == ~hasKey
\* The messages of a connection error.
ConnectionErrorShown == error \in { << "Connection error." >>, << "Connection lost." >> }
\* The session of start() k is over: Idle, the references null, k's stream and
\* input context released.
SessionOver(k) ==
  /\ ~isListening
  /\ sessionRef = 0 /\ streamRef = 0 /\ audioContextInRef = 0
  /\ att[k].stream # "live" /\ att[k].inCtx # "running"

\* C12: the error event and the close event of a connection leave the session
\* Idle with its resources released; an error whose text tells of a credential
\* shows the setup-required state, any other error a connection error.
C12_RemoteErrorForcesStop ==
  [][ \A k \in 1..MaxStarts :
        /\ \A e \in ErrorTexts :
             ConnErrorWith(k, e) =>
               /\ SessionOver(k)'
               /\ IF CredentialText(e) THEN AuthRequired'
                  ELSE ~AuthRequired' /\ ConnectionErrorShown'
        /\ ConnClose(k) => SessionOver(k)' ]_vars

\* ------------------------------------------------------------------ C13
\* C13: when the sessionPromise of a start() that holds a microphone stream
\* rejects, the state is Idle and the stream and the input context of that
\* start() are no longer live.
C13_FailedStartTornDown ==
  [][ \A k \in 1..MaxStarts :
        ConnectFail(k) => /\ ~isListening'
                          /\ att'[k].stream # "live"
                          /\ att'[k].inCtx # "running" ]_vars

\* ------------------------------------------------------------------ C14
\* C14: a rejected getUserMedia shows an error and opens no connection, and the
\* step taken when the user declined is not the step taken when there is no
\* input device: the two leave different states.
C14_MicFailuresDistinguished ==
  [][ \A k \in 1..MaxStarts :
        /\ GumDenied(k) => /\ error' # << >>
                           /\ ~isListening'
                           /\ att'[k].conn = "none"
        /\ \A e1, e2 \in GumErrors :
             (e1 # e2 /\ GumDeniedWith(k, e1)) => ~GumDeniedWith(k, e2) ]_vars

\* ------------------------------------------------------------------ C15
\* The frames handed to one connection, in the order of the calls.
SentOn(k) == SelectSeq(sent, LAMBDA m : m.conn = k)

\* C15: on every connection the frames sent are captured frames in strictly
\* increasing capture order (none twice, none out of order); the frames still
\* waiting for the session are in capture order and later than every frame sent.
C15_FramesInOrderOnce ==
  \A k \in 1..MaxStarts :
    LET q == SentOn(k) IN
      /\ \A a, b \in 1..Len(q) : a < b => q[a].frame < q[b].frame
      /\ \A a \in 1..Len(q) : q[a].frame \in 1..nCaptured
      /\ \A a, b \in 1..Len(att[k].queued) : a < b => att[k].queued[a] < att[k].queued[b]
      /\ \A a \in 1..Len(q), b \in 1..Len(att[k].queued) : q[a].frame < att[k].queued[b]

\* Two frames were captured while Active and both were sent, in their order.
C15_Witness ==
  /\ isListening
  /\ nCaptured = 2
  /\ Len(sent) = 2
  /\ sent[1].frame = 1 /\ sent[2].frame = 2

\* ------------------------------------------------------------------ C16
\* C16: a frame captured while the session of its processor is not there yet is
\* dropped: the capture step queues nothing and sends nothing, and the step in
\* which the session arrives sends nothing; neither changes isListening.
C16_NotReadyFrameDropped ==
  [][ \A k \in 1..MaxStarts :
        /\ (Capture(k) /\ att[k].pc # "resolved")
              => /\ att'[k].queued = << >>
                 /\ sent' = sent
                 /\ isListening' = isListening
        /\ ConnectResolve(k) => sent' = sent ]_vars

\* ------------------------------------------------------------------ C17
\* The three-field format: two delimiters, and no field empty once trimmed.
WellFormed(q) ==
  LET F == pipeFields(q)
  IN Len(F) = 3 /\ \A i \in 1..3 : trim(F[i]) # << >>

\* C17 (variant A, whose handler parses the format): a turn-complete signal on
\* a buffer in the three-field format puts exactly one record in front of the
\* history, whose fields are the three trimmed fields of the buffer, and empties
\* the buffer.
C17_WellFormedTurnYieldsRecord ==
  [][ \A k \in 1..MaxStarts, txt \in PartialChunks \cup {<< >>} :
        ( /\ variant = "A"
          /\ TurnMessage(k, NoAudio, txt, TRUE)
          /\ WellFormed(currentOutputTranscriptionRef \o txt) )
        => LET F == pipeFields(currentOutputTranscriptionRef \o txt)
           IN /\ Len(history') = Len(history) + 1
              /\ Tail(history') = history
              /\ history'[1].languageName = trim(F[1])
              /\ history'[1].snippet = trim(F[2])
              /\ history'[1].translation = trim(F[3])
              /\ currentOutputTranscriptionRef' = << >> ]_vars

\* A turn was finalized into a record and the buffer is empty again.
C17_Witness ==
  /\ variant = "A"
  /\ Len(history) = 1
  /\ history[1].type = "voice"
  /\ history[1].languageName = << "a" >>
  /\ currentOutputTranscriptionRef = << >>
  /\ turnArrived = << >>

\* ------------------------------------------------------------------ C18
\* A buffer with fewer than two delimiters, the empty buffer included.
Unparseable(q) == Len(pipeFields(q)) < 3

\* C18: a turn-complete signal on an empty buffer or on a buffer with missing
\* delimiters adds no record, shows no error, leaves the session state as it is
\* and empties the buffer.
C18_UnparseableTurnYieldsNothing ==
  [][ \A k \in 1..MaxStarts, txt \in PartialChunks \cup {<< >>} :
        ( /\ TurnMessage(k, NoAudio, txt, TRUE)
          /\ Unparseable(currentOutputTranscriptionRef \o txt) )
        => /\ history' = history
           /\ transcriptions' = transcriptions
           /\ storage' = storage
           /\ error' = error
           /\ isListening' = isListening
           /\ currentOutputTranscriptionRef' = << >> ]_vars

\* ------------------------------------------------------------------ C19
\* The list of records shown: history (variant A), transcriptions (variant B).
Records == IF variant = "A" THEN history ELSE transcriptions

\* C19: after every step the list of records and the stored list are no longer
\* than the cap and the list is most recent first; a record added to a list of
\* cap length leaves a list of cap length, with the new record first and the
\* oldest one gone.
C19_HistoryCapped ==
  [][ /\ Len(Records') <= HistoryCap
      /\ Len(storage') <= HistoryCap
      /\ \A a, b \in 1..Len(Records') : a < b => Records'[a].id > Records'[b].id
      /\ (nRecords' > nRecords /\ Len(Records) = HistoryCap)
           => /\ Len(Records') = HistoryCap
              /\ Records'[1].id = nRecords'
              /\ Tail(Records') = SubSeq(Records, 1, HistoryCap - 1) ]_vars

\* ------------------------------------------------------------------ C20
\* The sources that sound now: started, not stopped, their buffer not played out.
Sounding ==
  {i \in DOMAIN seg :
     /\ seg[i].src = "playing"
     /\ seg[i].endAt - seg[i].dur <= outCtx[seg[i].ctx].time
     /\ outCtx[seg[i].ctx].time < seg[i].endAt}

\* Every source.start of the log was called before the end scheduled for the
\* segment before it.
EachBeforeEnd ==
  \A a \in 1..(Len(startLog) - 1) :
     startLog[a + 1].at < startLog[a].start + startLog[a].dur

\* C20: in the scenario of 0.5 s, 0.3 s and 0.4 s, where each segment is
\* scheduled before the one before it has ended, each start time is the start
\* time before it plus that segment's duration, the clock after the third is the
\* first start time plus 1.2 s, and at no time do two sources sound.
C20_GaplessScenario ==
  /\ EachBeforeEnd =>
       /\ \A a \in 1..(Len(startLog) - 1) :
             startLog[a + 1].start = startLog[a].start + startLog[a].dur
       /\ Len(startLog) = 3 => nextStartTimeRef = startLog[1].start + 12
  /\ Cardinality(Sounding) <= 1

\* ------------------------------------------------------------------ C21
\* One record of the given type was created and put in front of the history;
\* the records that were there are as they were, shifted by one, the last one
\* gone when the list was full.
CreatedOne(type) ==
  /\ nRecords' = nRecords + 1
  /\ history' # << >>
  /\ history'[1].type = type
  /\ history'[1].id = nRecords'
  /\ Tail(history') = slice(history, 0, HistoryCap - 1)

\* C21 (variant A, whose records are the TranslationRecords): the step that
\* completes a turn whose buffer parses creates exactly one record, of type
\* voice; the reply of a manual translation creates exactly one record, of type
\* text, when the translation is not empty and none when it is; no other step
\* creates a record, and every step leaves the records of the history as they
\* were, shifted, evicted or cleared.
C21_RecordOncePerTurnOrRequest ==
  [][ variant = "A" =>
        /\ \A k \in 1..MaxStarts, itxt \in {<< >>, << "a" >>} :
              HistoryMessage(k, WholeChunk, itxt) => CreatedOne("voice")
        /\ ManualTranslateReply(<< "a" >>) => CreatedOne("text")
        /\ ManualTranslateReply(<< >>) => (nRecords' = nRecords /\ history' = history)
        /\ nRecords' \in {nRecords, nRecords + 1}
        /\ nRecords' = nRecords => history' \in {history, << >>} ]_vars

\* The history is full, a record has been evicted, and it holds records of
\* turns and of manual translations.
C21_Witness ==
  /\ variant = "A"
  /\ Len(history) = HistoryCap
  /\ nRecords > HistoryCap
  /\ \E a, b \in 1..Len(history) : history[a].type = "voice" /\ history[b].type = "text"

C23_ScheduledInArrivalOrder ==
  \A a, b \in 1..Len(startLog) :
     startLog[a].seg < startLog[b].seg => startLog[a].start <= startLog[b].start

\* ------------------------------------------------------------------ C24
\* C24: the stop() of the main button leaves the active set empty and the
\* PlaybackClock at zero, and the first segment scheduled after a stop, when it
\* was received after the stop, is handed a start time that is not later than the
\* output context's currentTime at that moment.
C24_StopCancelsPlayback ==
  /\ [][ StopClick => (audioSourcesRef' = {} /\ nextStartTimeRef' = 0) ]_vars
  /\ [](\A a \in 1..Len(startLog) :
          (lastClear = "stop" /\ startLog[a].first /\ ~startLog[a].pre)
             => startLog[a].start <= startLog[a].at)

\* ------------------------------------------------------------------ C25
\* A stop() has run since start() k acquired its microphone stream.
StoppedSince(k) == att[k].stream = "stopped"

\* C25: isListening becomes true only in the step of the open signal of a
\* start(), which wires the capture of that start() to its connection; the open
\* signal of a start() whose stream a stop() has released leaves isListening as
\* it is and wires no capture.
C25_ActiveOnlyOnOwnOpen ==
  [][ /\ (~isListening /\ isListening')
          => \E k \in 1..MaxReopenStarts : ConnOpen(k) /\ att'[k].wired = k
      /\ \A k \in 1..MaxReopenStarts :
            (ConnOpen(k) /\ StoppedSince(k))
               => (isListening' = isListening /\ att'[k].wired = 0) ]_vars

\* ------------------------------------------------------------------ C26
\* The sources that were started and have neither ended nor been stopped.
StartedNotEnded == {i \in DOMAIN seg : seg[i].src = "playing"}

\* C26: the active set holds exactly the sources that were started and have
\* neither ended nor been cancelled; so it is empty once every source has ended.
C26_ActiveSetIsStartedNotEnded ==
  /\ audioSourcesRef = StartedNotEnded
  /\ (\A i \in DOMAIN seg : seg[i].pc \in {"done", "dropped"} /\ seg[i].src # "playing")
        => audioSourcesRef = {}

\* The first source has played out and was removed; the second one still plays
\* and is the only member of the active set.
C26_Witness ==
  /\ seg[1].src = "ended"
  /\ seg[2].src = "playing"
  /\ audioSourcesRef = {2}
  /\ lastClear = "init"

\* ------------------------------------------------------------------ C27
\* C27: no source.start call made since the last cancelAll is for a segment that
\* had been received before that cancel.
C27_NoStartOfCancelledSegment ==
  lastClear \in {"cancelAll", "interrupted"}
     => \A a \in 1..Len(startLog) : ~startLog[a].pre

\* ------------------------------------------------------------------ C28
\* C28: the close event or the error event of the connection of a start() whose
\* stream a stop() has released, when it fires while another start() holds a live
\* stream, leaves that start()'s stream, input context and connection, the
\* references and isListening as they were.
C28_StaleCallbackSparesNewSession ==
  [][ \A k, j \in 1..MaxStarts :
        ( /\ ConnClose(k) \/ ConnError(k)
          /\ StoppedSince(k)
          /\ j # k
          /\ att[j].stream = "live" )
        => /\ att'[j] = att[j]
           /\ UNCHANGED << isListening, sessionRef, streamRef, audioContextInRef >> ]_vars

\* ------------------------------------------------------------------ C29
\* C29: once stop() has run for the session of a start(), no further frame is
\* delivered to its connection.
C29_NoFrameAfterStop ==
  [][ \A k \in 1..MaxStarts : StoppedSince(k) => SentOn(k)' = SentOn(k) ]_vars

\* ------------------------------------------------------------------ C30
\* The step has processed the signals of message m: its partial text is in the
\* buffer, or the buffer was finalized and emptied when m completes the turn,
\* and playback was cancelled when m carries the interrupted signal.
SignalsProcessed(m) ==
  /\ currentOutputTranscriptionRef' =
        IF m.tc THEN << >> ELSE currentOutputTranscriptionRef \o m.text
  /\ m.intr => (audioSourcesRef' = {} /\ nextStartTimeRef' = 0)

\* C30: the step in which the audio part of a message fails to decode, be it
\* at the arrival of the message or at the resumption of its handler, processes
\* the other signals of that message.
C30_SignalsSurviveDecodeFailure ==
  [][ /\ \A i \in 1..MaxSegs :
            (seg[i].pc \in {"unlock", "decode"} /\ seg'[i].pc = "dropped")
               => SignalsProcessed(msgOf(seg[i]))
      /\ \A k \in 1..MaxStarts, au \in FailPayloads, txt \in {<< >>, << "a" >>},
            tc \in BOOLEAN, intr \in BOOLEAN :
            ( /\ SignalMessage(k, au, txt, tc, intr)
              /\ \E i \in 1..MaxSegs : seg[i].pc = "none" /\ seg'[i].pc = "dropped" )
            => SignalsProcessed([text |-> txt, itext |-> << >>, tc |-> tc, intr |-> intr])
    ]_vars

\* ------------------------------------------------------------------ C31
\* C31 (variant A, which has the indicator): isSpeaking is true whenever the
\* active set holds a source that has not ended, and false when the active set
\* is empty, no handler awaits the audio of a segment and no replay awaits its
\* synthesized audio.
C31_SpeakingTracksPlayback ==
  variant = "A" =>
    /\ (\E i \in audioSourcesRef : seg[i].src = "playing") => isSpeaking
    /\ ( /\ audioSourcesRef = {}
         /\ \A i \in DOMAIN seg : seg[i].pc \notin {"unlock", "decode"}
         /\ manual # "speak" ) => ~isSpeaking

\* ------------------------------------------------------------------ C32
\* C32: in the step in which the session becomes Active, the transcript buffers
\* are empty.
C32_BufferEmptyWhenActive ==
  [][ (~isListening /\ isListening')
        => /\ currentOutputTranscriptionRef' = << >>
           /\ currentInputTranscription' = << >> ]_vars

\* ------------------------------------------------------------------ C33
\* C33: the list stored under the storage key is the history held in memory.
C33_StorageEqualsHistory == variant = "A" => storage = history

\* ------------------------------------------------------------------ C34
\* The replays whose audio is in the active set and has not ended.
ReplaysScheduled ==
  {seg[i].replay : i \in {j \in audioSourcesRef : seg[j].replay # 0 /\ seg[j].src = "playing"}}

\* C34: the audio of a speakText call is started only while that call is the
\* latest one, and after every step the active set holds the audio of at most
\* one speakText call.
C34_ReplayLatestWins ==
  [][ /\ \A i \in DOMAIN seg :
            (seg[i].replay # 0 /\ seg[i].src = "none" /\ seg'[i].src = "playing")
               => seg[i].replay = Len(speakReq)
      /\ Cardinality(ReplaysScheduled') <= 1 ]_vars

\* ------------------------------------------------------------------ C35
\* C35: a manual request made with blank input or while one is in progress
\* changes nothing; a request with non-blank input made while none is in progress
\* is accepted; and whenever a request is in progress, the flag is cleared later.
C35_OneManualRequestAtATime ==
  /\ [][ \A blank \in BOOLEAN :
            /\ (ManualKey(blank) /\ (blank \/ isTranslating)) => UNCHANGED vars
            /\ (ManualKey(blank) /\ ~blank /\ ~isTranslating)
                  => (isTranslating' /\ manual' = "translate") ]_vars
  /\ (isTranslating ~> ~isTranslating)

\* A request has been through its translation, its speech and the playback of
\* the audio, the flag is clear again and a later request is in progress.
C35_Witness ==
  /\ \E i \in 1..MaxSegs : seg[i].src = "playing" /\ seg[i].fin
  /\ isTranslating
  /\ manual = "translate"

====
